---- MODULE Spec2Model ----
(***************************************************************************)
(* Model of the morning-greeting bot: the dispatch run                     *)
(* (functions/greetings.js), the eligibility query and the                 *)
(* last_greeting_sent write (utils/database.js), the delivery call         *)
(* (functions/bot.js), the cron scheduler (utils/scheduler.js), the HTTP    *)
(* handlers that start runs, reschedule, send a test greeting and patch a  *)
(* user (index.js), the commands /stop and /start (functions/bot.js), the  *)
(* user synchronisation (functions/users.js) and the broadcast.            *)
(*                                                                         *)
(* Time is counted in units of three hours: a day has DayLen units and     *)
(* Europe/Moscow (UTC+3) is TzOffset units ahead of UTC.  Every await of   *)
(* the code is a step boundary: other handlers and the clock may act       *)
(* between two steps of the same run.                                      *)
(***************************************************************************)
EXTENDS Integers, Sequences, FiniteSets, TLC

VARIABLES
    now,        \* the wall clock, in units since the epoch (UTC)
    users,      \* table users: bitrix_id -> [exists, is_active, last_greeting_sent]
    botId,      \* bot.botId is set (the bot is registered)
    batchSize,  \* config.bot.maxUsersPerBatch
    runs,       \* the invocations of sendMorningGreetings, by run id
    sends,      \* history: the calls of imbot.message.add made by the runs
    writes,     \* history: the rows written to users and message_history
    sched,      \* the Scheduler object: [jobs, tasks, isRunning]
    starter,    \* position of startServer / scheduler.start()
    settings,   \* table schedule_settings, row 'morning_greeting'
    puts,       \* the PUT /api/schedule requests, by request id
    reply,      \* the last answer of POST /api/schedule/run/:jobName
    fired,      \* number of invocations of the user_sync and log_cleanup handlers
    signals,    \* number of SIGTERM / SIGINT signals handled
    again,      \* position of a second call of scheduler.start()
    saves,      \* the calls of Database.saveUser, by call id
    cast        \* the invocation of sendBroadcastMessage

vars == <<now, users, botId, batchSize, runs, sends, writes,
          sched, starter, settings, puts, reply, fired, signals, again,
          saves, cast>>

----------------------------------------------------------------------------
(* Bounds *)

MaxTicks == 1
MaxRuns == 2
MaxPuts == 2
MaxTasks == 5
MaxFired == 2
MaxSignals == 2
MaxWaited == 5
MaxTests == 2
MaxSaves == 2

(* Program constants, in model units *)

DayLen == 8
TzOffset == 1
StartTime == 39
EpochWeekday == 4
DefaultSlot == 3
SyncSlot == 0
CleanupSlot == 1
Sunday == 0
NULL == -1

MaxTime == StartTime + MaxTicks

UserOrder == <<"u1", "u2", "u3">>
UserIds == {UserOrder[n] : n \in 1..Len(UserOrder)}
RunIds == 1..MaxRuns
PutIds == 1..MaxPuts
JobNames == {"morning_greeting", "user_sync", "log_cleanup"}
OtherJobs == {"user_sync", "log_cleanup"}
\* the names POST /api/schedule/run/:jobName is called with
RouteNames == JobNames \cup {"no_such_job"}
WorkDays == {1, 2, 3, 4, 5}
AllDays == 0..6
ConfigTimezone == "Europe/Moscow"

----------------------------------------------------------------------------
(* Calendar *)

\* new Date().toISOString().split('T')[0] and SQLite DATE(): the UTC date
UtcDate(t) == t \div DayLen

\* the calendar date in the configured timezone
LocalDate(t) == (t + TzOffset) \div DayLen

\* the hour:minute slot of the day in the configured timezone
LocalSlot(t) == (t + TzOffset) % DayLen

Weekday(d) == (d + EpochWeekday) % 7

\* the offset of a timezone from UTC
Offset(z) == IF z = "Europe/Moscow" THEN TzOffset ELSE 0

\* the calendar date and the slot of the day in timezone z
DateIn(z, t) == (t + Offset(z)) \div DayLen
SlotIn(z, t) == (t + Offset(z)) % DayLen

----------------------------------------------------------------------------
(* Eligibility store (utils/database.js) *)

\* the WHERE clause without its is_active = 1 condition
IsEligibleAnyStatus(us, u, t) ==
    \/ us[u].last_greeting_sent = NULL
    \/ UtcDate(us[u].last_greeting_sent) < UtcDate(t)

IsEligible(us, u, t) ==
    /\ us[u].exists
    /\ us[u].is_active
    /\ \/ us[u].last_greeting_sent = NULL
       \/ UtcDate(us[u].last_greeting_sent) < UtcDate(t)

\* SELECT ... WHERE is_active = 1 AND (last IS NULL OR DATE(last) < DATE(today))
\* ORDER BY name
getUsersForMorningGreeting(us, t) ==
    SelectSeq(UserOrder, LAMBDA u : IsEligible(us, u, t))

\* UPDATE users SET last_greeting_sent = CURRENT_TIMESTAMP WHERE bitrix_id = ?
updateLastGreeting(us, u, t) ==
    [us EXCEPT ![u].last_greeting_sent = t]

----------------------------------------------------------------------------
(* Delivery channel (functions/bot.js) *)

\* One call of the remote method imbot.message.add ends in one of:
\*   "id"    a message id is returned,
\*   "noid"  the call returns, getData() is empty,
\*   "throw" the call throws.
ChannelResults == {"id", "noid", "throw"}

\* BitrixBot.sendMessage: bid is bot.botId, res the result of the remote call.
\*   called    the remote method was called
\*   thrown    sendMessage throws
\*   messageId what it returns when it does not throw (TRUE: an id)
\*   history   the status of the row it inserted into message_history
sendMessage(bid, res) ==
    IF ~bid
    THEN [called |-> FALSE, thrown |-> TRUE, messageId |-> FALSE, history |-> "none"]
    ELSE IF res = "id"
    THEN [called |-> TRUE, thrown |-> FALSE, messageId |-> TRUE, history |-> "sent"]
    ELSE IF res = "noid"
    THEN [called |-> TRUE, thrown |-> FALSE, messageId |-> FALSE, history |-> "none"]
    ELSE [called |-> TRUE, thrown |-> TRUE, messageId |-> FALSE, history |-> "error"]

----------------------------------------------------------------------------
(* Dispatch run (functions/greetings.js) *)

NoMessage ==
    [called |-> FALSE, thrown |-> FALSE, messageId |-> FALSE, history |-> "none"]

\* sendGreetingToUser whose catch rethrows instead of returning a result
sendGreetingToUserRethrows(us, u, t, m, storeOk) ==
    IF m.thrown \/ ~storeOk
    THEN [result |-> [success |-> FALSE, userId |-> u, error |-> "send"],
          users |-> us, wrote |-> FALSE, thrown |-> TRUE]
    ELSE [result |-> [success |-> TRUE, userId |-> u, error |-> ""],
          users |-> updateLastGreeting(us, u, t), wrote |-> TRUE, thrown |-> FALSE]

\* sendGreetingToUser that writes last_greeting_sent before it sends, so that
\* a failed send is marked too
sendGreetingToUserMarksFirst(us, u, t, m, storeOk) ==
    [result |-> [success |-> ~m.thrown /\ storeOk, userId |-> u,
                 error |-> IF m.thrown THEN "send"
                           ELSE IF storeOk THEN "" ELSE "store"],
     users |-> updateLastGreeting(us, u, t), wrote |-> TRUE, thrown |-> FALSE]

\* sendGreetingToUser after bot.sendMessage has settled with m: the write of
\* last_greeting_sent (storeOk: the UPDATE succeeds) and the returned result.
\*   result  the object returned
\*   users   the users table afterwards
\*   wrote   last_greeting_sent was written
\*   thrown  sendGreetingToUser throws (its catch returns instead)
sendGreetingToUser(us, u, t, m, storeOk) ==
    IF m.thrown
    THEN [result |-> [success |-> FALSE, userId |-> u, error |-> "send"],
          users |-> us, wrote |-> FALSE, thrown |-> FALSE]
    ELSE IF storeOk
    THEN [result |-> [success |-> TRUE, userId |-> u, error |-> ""],
          users |-> updateLastGreeting(us, u, t), wrote |-> TRUE, thrown |-> FALSE]
    ELSE [result |-> [success |-> FALSE, userId |-> u, error |-> "store"],
          users |-> us, wrote |-> FALSE, thrown |-> FALSE]

\* the early return of sendMorningGreetings for users.length === 0
EmptyResults ==
    [total |-> 0, sent |-> 0, errors |-> 0, hasDetails |-> FALSE, details |-> <<>>]

\* const results = { total: users.length, sent: 0, errors: 0, details: [] }
NewResults(list) ==
    [total |-> Len(list), sent |-> 0, errors |-> 0, hasDetails |-> TRUE,
     details |-> <<>>]

\* the loop body counting every result as sent
recordResultAlwaysSent(results, result) ==
    [results EXCEPT !.details = Append(@, result), !.sent = @ + 1]

\* results.details.push(result); result.success ? results.sent++ : results.errors++
recordResult(results, result) ==
    [results EXCEPT !.details = Append(@, result),
                    !.sent = IF result.success THEN @ + 1 ELSE @,
                    !.errors = IF result.success THEN @ ELSE @ + 1]

\* waited: the timers the run has awaited since its last send, in units of
\* config.bot.delayBetweenMessages
IdleRun ==
    [pc |-> "idle", origin |-> "none", list |-> <<>>, before |-> <<>>,
     i |-> 0, k |-> 0, results |-> EmptyResults, pending |-> NoMessage,
     waited |-> 0]

\* a batch that is the whole rest of the list
BatchLenRest(run, bs) == Len(run.list) - run.i

\* Array.prototype.slice: an index below 0 counts from the end of the array,
\* and every index is clamped to 0..len
SliceIndex(len, a) ==
    IF a < 0 THEN (IF len + a < 0 THEN 0 ELSE len + a)
    ELSE IF a > len THEN len ELSE a

\* users.slice(i, i + batchSize).length
BatchLen(run, bs) ==
    LET from == SliceIndex(Len(run.list), run.i)
        to == SliceIndex(Len(run.list), run.i + bs)
    IN IF to > from THEN to - from ELSE 0

\* the inner loop going through the list from its end
CurrentUserFromEnd(run) ==
    run.list[Len(run.list) + 1 - (SliceIndex(Len(run.list), run.i) + run.k)]

\* the recipient the inner loop is at: element k of users.slice(i, ...)
CurrentUser(run) == run.list[SliceIndex(Len(run.list), run.i) + run.k]

\* the run at the top of the body of the outer loop with index i: the first
\* recipient of the batch, or for an empty batch the pause that follows it
\* (i + batchSize < users.length holds whenever the batch is empty)
EnterBatch(run, i, bs) ==
    LET at == [run EXCEPT !.i = i, !.k = 1]
    IN IF BatchLen(at, bs) > 0 THEN [at EXCEPT !.pc = "send"]
       ELSE [at EXCEPT !.pc = "pause"]

FreeRuns(rs) == {r \in RunIds : rs[r].pc = "idle"}

\* sendMorningGreetings is called n times, by the job handler (origin "job")
\* or by the route POST /api/greetings/send (origin "api")
RECURSIVE StartRuns(_, _, _)
StartRuns(rs, n, origin) ==
    IF n = 0 THEN rs
    ELSE LET r == CHOOSE x \in FreeRuns(rs) : \A y \in FreeRuns(rs) : x <= y
         IN StartRuns([rs EXCEPT ![r] = [IdleRun EXCEPT !.pc = "start",
                                                       !.origin = origin]],
                      n - 1, origin)

----------------------------------------------------------------------------
(* Scheduler (utils/scheduler.js) *)

\* a cron task fires at time t: `${minute} ${hour} * * ${cronDays}` in the
\* timezone given to cron.schedule
Matches(task, t) ==
    /\ SlotIn(task.timezone, t) = task.slot
    /\ Weekday(DateIn(task.timezone, t)) \in task.days

\* the first time strictly after t at which the task fires (NULL: never)
NextOccurrence(task, t) ==
    LET later == {x \in (t + 1)..(t + 7 * DayLen) : Matches(task, x)}
    IN IF later = {} THEN NULL
       ELSE CHOOSE x \in later : \A y \in later : x <= y

\* Scheduler.getNextRunTime: node-cron exports schedule, validate and getTasks
\* and has no parseExpression, so the call throws a TypeError and the catch
\* returns null, whatever the expression and the time
getNextRunTime(expr, t) == NULL

\* node-cron accepts the expression: hour 0-23 and a non-empty list of days
\* 0-6 ("".split(',') gives the day NaN)
ValidExpression(expr) ==
    /\ expr.slot \in 0..(DayLen - 1)
    /\ expr.days # {}
    /\ expr.days \subseteq AllDays

Has(s, name) == name \in JobNames /\ s.jobs[name] # 0

LiveTasks(s, name) ==
    {n \in 1..Len(s.tasks) : s.tasks[n].name = name /\ s.tasks[n].live}

\* scheduleJob without the stop of the job already registered under name
scheduleJobNoStop(s, name, expr) ==
    IF ValidExpression(expr)
    THEN [s EXCEPT !.tasks = Append(@, [name |-> name, slot |-> expr.slot,
                                        days |-> expr.days,
                                        timezone |-> ConfigTimezone,
                                        live |-> TRUE]),
                   !.jobs[name] = Len(s.tasks) + 1]
    ELSE s

\* Scheduler.scheduleJob: stop the job registered under name, create the new
\* task with the timezone of the configuration, register it; cron.schedule
\* throws on an expression it does not accept, after the stop
scheduleJob(s, name, expr) ==
    LET old == s.jobs[name]
        stopped == IF old # 0 THEN [s EXCEPT !.tasks[old].live = FALSE] ELSE s
        task == [name |-> name, slot |-> expr.slot, days |-> expr.days,
                 timezone |-> ConfigTimezone, live |-> TRUE]
    IN IF ValidExpression(expr)
       THEN [stopped EXCEPT !.tasks = Append(@, task),
                            !.jobs[name] = Len(s.tasks) + 1]
       ELSE stopped

\* Scheduler.scheduleMorningGreeting: the cron expression of a settings row;
\* the timezone of the row is not read
scheduleMorningGreeting(s, row) ==
    scheduleJob(s, "morning_greeting",
                [slot |-> row.slot, days |-> row.days_of_week])

\* Scheduler.scheduleMorningGreetingFromConfig
scheduleMorningGreetingFromConfig(s) ==
    scheduleJob(s, "morning_greeting", [slot |-> DefaultSlot, days |-> WorkDays])

\* Scheduler.scheduleDailyUserSync: '0 2 * * *'
scheduleDailyUserSync(s) ==
    scheduleJob(s, "user_sync", [slot |-> SyncSlot, days |-> AllDays])

\* Scheduler.scheduleLogCleanup: '0 3 * * 0'
scheduleLogCleanup(s) ==
    scheduleJob(s, "log_cleanup", [slot |-> CleanupSlot, days |-> {Sunday}])

\* stopJob that stops the task of every name
stopJobStopsOthers(s, name) ==
    LET old == s.jobs[name]
    IN IF old # 0
       THEN [s EXCEPT !.tasks = [n \in 1..Len(s.tasks) |->
                                    [s.tasks[n] EXCEPT !.live = FALSE]],
                      !.jobs[name] = 0]
       ELSE s

\* stopJob that forgets the job without stopping its task
stopJobForgets(s, name) ==
    [s EXCEPT !.jobs[name] = 0]

\* Scheduler.stopJob
stopJob(s, name) ==
    LET old == s.jobs[name]
    IN IF old # 0
       THEN [s EXCEPT !.tasks[old].live = FALSE, !.jobs[name] = 0]
       ELSE s

\* Scheduler.stopAll: every registered job is stopped, the map is cleared
stopAll(s) ==
    [s EXCEPT !.tasks = [n \in 1..Len(s.tasks) |->
                            IF \E name \in JobNames : s.jobs[name] = n
                            THEN [s.tasks[n] EXCEPT !.live = FALSE]
                            ELSE s.tasks[n]],
              !.jobs = [name \in JobNames |-> 0],
              !.isRunning = FALSE]

\* Scheduler.getActiveJobs: one pair per entry of the map; a task of node-cron
\* has no property running, so running is true for every entry
getActiveJobs(s) ==
    {[name |-> name, running |-> TRUE] : name \in {n \in JobNames : s.jobs[n] # 0}}

\* Database.getScheduleSettings: the row when is_active = 1
getScheduleSettings(row) == row

----------------------------------------------------------------------------
(* Initial state: the process has been constructed, the database holds any  *)
(* users and a schedule row written by an earlier lifetime                  *)

LastValues == {NULL, StartTime - 1}

\* exists: the table has a row with this bitrix_id
UserRows ==
    [exists : {TRUE}, is_active : BOOLEAN, last_greeting_sent : LastValues]

DefaultSettings ==
    [slot |-> DefaultSlot, days_of_week |-> WorkDays,
     timezone |-> "Europe/Moscow", is_active |-> TRUE, last_run |-> NULL]

\* well-formed bodies of PUT /api/schedule in the timezone of the configuration
Bodies == {[slot |-> 1, days_of_week |-> WorkDays, timezone |-> "Europe/Moscow"],
           [slot |-> 2, days_of_week |-> AllDays, timezone |-> "Europe/Moscow"]}

\* bodies with hour 24, with no day, and in another timezone
OtherBodies == {[slot |-> DayLen, days_of_week |-> WorkDays,
                 timezone |-> "Europe/Moscow"],
                [slot |-> 1, days_of_week |-> {}, timezone |-> "Europe/Moscow"],
                [slot |-> 1, days_of_week |-> AllDays, timezone |-> "UTC"]}

AllBodies == Bodies \cup OtherBodies

IdlePut == [pc |-> "idle", read |-> DefaultSettings]

SaveIds == 1..MaxSaves

\* existing: the SELECT of saveUser found a row
IdleSave == [pc |-> "idle", user |-> "", existing |-> FALSE]

\* a bitrix_id without a row in the table users
NoUser == [exists |-> FALSE, is_active |-> FALSE, last_greeting_sent |-> NULL]

\* the row after INSERT INTO users (bitrix_id, name, ...): is_active takes its
\* default 1, last_greeting_sent is null
NewUser == [exists |-> TRUE, is_active |-> TRUE, last_greeting_sent |-> NULL]

\* filter: the users whose department and work_position match userFilter;
\* attempts: the users bot.sendMessage was called for, in order
IdleCast ==
    [pc |-> "idle", filter |-> {}, list |-> <<>>, k |-> 0, attempts |-> <<>>,
     total |-> 0, sent |-> 0, errors |-> 0]

\* no filter, or a filter that one user does not match
Filters == {UserIds} \cup {UserIds \ {u} : u \in UserIds}

\* found: the name was registered when the route was called
NoReply == [name |-> "", found |-> FALSE, status |-> "none"]

\* config.bot.maxUsersPerBatch is parseInt(MAX_USERS_PER_BATCH) || 10: any
\* integer but 0
BatchSizes == {-1, 1, 2}

\* the rows of schedule_settings the model starts from: the row inserted by
\* initTables, or slot 1 written by an earlier PUT /api/schedule
SettingsRows == {DefaultSettings, [DefaultSettings EXCEPT !.slot = 1]}

\* the same rows, active or with is_active = 0
StoredRows ==
    SettingsRows \cup {[row EXCEPT !.is_active = FALSE] : row \in SettingsRows}

InitWith(t, sizes, rows) ==
    /\ now = t
    /\ users \in [UserIds -> UserRows]
    /\ botId \in BOOLEAN
    /\ batchSize \in sizes
    /\ runs = [r \in RunIds |-> IdleRun]
    /\ sends = {}
    /\ writes = {}
    /\ sched = [jobs |-> [n \in JobNames |-> 0], tasks |-> <<>>,
                isRunning |-> FALSE]
    /\ starter = "idle"
    /\ settings \in rows
    /\ puts = [p \in PutIds |-> IdlePut]
    /\ reply = NoReply
    /\ fired = [name \in OtherJobs |-> 0]
    /\ signals = 0
    /\ again = "idle"
    /\ saves = [c \in SaveIds |-> IdleSave]
    /\ cast = IdleCast

InitAt(t) == InitWith(t, {1, 2}, SettingsRows)

Init == InitAt(StartTime)

----------------------------------------------------------------------------
(* The clock and the cron firings *)

\* a clock whose tasks wait for the runs in flight: a task that is due while a
\* run is in its loop does not invoke its handler
TickWhenIdle ==
    LET busy == \E r \in RunIds :
                    runs[r].pc \in {"start", "send", "mark", "delay", "pause"}
        due == {n \in 1..Len(sched.tasks) :
                    /\ sched.tasks[n].live /\ Matches(sched.tasks[n], now + 1)
                    /\ ~busy}
        greetings == {n \in due : sched.tasks[n].name = "morning_greeting"}
        others(name) == {n \in due : sched.tasks[n].name = name}
    IN /\ now < MaxTime
       /\ Cardinality(greetings) <= Cardinality(FreeRuns(runs))
       /\ \A name \in OtherJobs :
             fired[name] + Cardinality(others(name)) <= MaxFired
       /\ now' = now + 1
       /\ runs' = StartRuns(runs, Cardinality(greetings), "job")
       /\ fired' = [name \in OtherJobs |->
                       fired[name] + Cardinality(others(name))]
       /\ UNCHANGED <<users, botId, batchSize, sends, writes, sched, starter,
                      settings, puts, reply, signals, again, saves, cast>>

\* time passes by one unit; every live task whose expression matches the new
\* time invokes its handler: the morning_greeting handler calls
\* sendMorningGreetings, the invocations of the other handlers are counted
Tick ==
    LET due == {n \in 1..Len(sched.tasks) :
                    sched.tasks[n].live /\ Matches(sched.tasks[n], now + 1)}
        greetings == {n \in due : sched.tasks[n].name = "morning_greeting"}
        others(name) == {n \in due : sched.tasks[n].name = name}
    IN /\ now < MaxTime
       /\ Cardinality(greetings) <= Cardinality(FreeRuns(runs))
       /\ \A name \in OtherJobs :
             fired[name] + Cardinality(others(name)) <= MaxFired
       /\ now' = now + 1
       /\ runs' = StartRuns(runs, Cardinality(greetings), "job")
       /\ fired' = [name \in OtherJobs |->
                       fired[name] + Cardinality(others(name))]
       /\ UNCHANGED <<users, botId, batchSize, sends, writes, sched, starter,
                      settings, puts, reply, signals, again, saves, cast>>

----------------------------------------------------------------------------
(* startServer: scheduler.start(), then the HTTP server listens *)

\* Scheduler.start up to its await of getScheduleSettings
StartBegin ==
    /\ starter = "idle"
    /\ ~sched.isRunning
    /\ sched' = [sched EXCEPT !.isRunning = TRUE]
    /\ starter' = "await"
    /\ UNCHANGED <<now, users, botId, batchSize, runs, sends, writes, settings,
                   puts,
                   reply, fired, signals, again, saves, cast>>

\* a start that runs the handler at once when the occurrence of the day has
\* come already
StartFinishBackfills ==
    LET s2 == IF getScheduleSettings(settings).is_active
              THEN scheduleMorningGreeting(sched, getScheduleSettings(settings))
              ELSE scheduleMorningGreetingFromConfig(sched)
        missed == \E n \in LiveTasks(s2, "morning_greeting") :
                      Matches(s2.tasks[n], now)
    IN /\ starter = "await"
       /\ sched' = s2
       /\ starter' = "started"
       /\ runs' = IF missed /\ FreeRuns(runs) # {}
                  THEN StartRuns(runs, 1, "job") ELSE runs
       /\ UNCHANGED <<now, users, botId, batchSize, sends, writes, settings,
                      puts, reply, fired, signals, again, saves, cast>>

\* Scheduler.start after the await: the job is scheduled
StartFinish ==
    /\ starter = "await"
    /\ sched' = IF getScheduleSettings(settings).is_active
                THEN scheduleMorningGreeting(sched, getScheduleSettings(settings))
                ELSE scheduleMorningGreetingFromConfig(sched)
    /\ starter' = "started"
    /\ UNCHANGED <<now, users, botId, batchSize, runs, sends, writes, settings,
                   puts,
                   reply, fired, signals, again, saves, cast>>

\* startServer after scheduler.start(): scheduleDailyUserSync,
\* scheduleLogCleanup, app.listen
ServerJobs ==
    /\ starter = "started"
    /\ sched' = scheduleLogCleanup(scheduleDailyUserSync(sched))
    /\ starter' = "done"
    /\ UNCHANGED <<now, users, botId, batchSize, runs, sends, writes, settings,
                   puts, reply, fired, signals, again, saves, cast>>

Listening == starter = "done"

----------------------------------------------------------------------------
(* Starting a run by hand *)

\* POST /api/greetings/send: the route calls sendMorningGreetings
ApiSend ==
    /\ Listening
    /\ FreeRuns(runs) # {}
    /\ runs' = StartRuns(runs, 1, "api")
    /\ UNCHANGED <<now, users, botId, batchSize, sends, writes, sched, starter,
                   settings, puts,
                   reply, fired, signals, again, saves, cast>>

\* runJob that stops the job it fires
runJobStops(name) ==
    /\ Listening
    /\ Has(sched, name)
    /\ name = "morning_greeting"
    /\ FreeRuns(runs) # {}
    /\ runs' = StartRuns(runs, 1, "job")
    /\ sched' = stopJob(sched, name)
    /\ reply' = [name |-> name, found |-> TRUE, status |-> "success"]
    /\ UNCHANGED <<now, users, botId, batchSize, sends, writes, starter,
                   settings, puts, fired, signals, again, saves, cast>>

\* POST /api/schedule/run/:jobName and Scheduler.runJob: job.now() invokes the
\* handler of the registered task, an unknown name is logged; the route
\* answers success in both cases
runJob(name) ==
    /\ Listening
    /\ IF ~Has(sched, name)
       THEN UNCHANGED <<runs, fired>>
       ELSE IF name = "morning_greeting"
       THEN /\ FreeRuns(runs) # {}
            /\ runs' = StartRuns(runs, 1, "job")
            /\ fired' = fired
       ELSE /\ fired[name] < MaxFired
            /\ fired' = [fired EXCEPT ![name] = @ + 1]
            /\ runs' = runs
    /\ reply' = [name |-> name, found |-> Has(sched, name), status |-> "success"]
    /\ UNCHANGED <<now, users, botId, batchSize, sends, writes, sched, starter,
                   settings, puts, signals, again, saves, cast>>

----------------------------------------------------------------------------
(* The steps of one run of sendMorningGreetings *)

\* a run that does not look at bot.botId before its query
RunQueryUnchecked(r) ==
    /\ runs[r].pc = "start"
    /\ \E ok \in BOOLEAN :
         LET list == getUsersForMorningGreeting(users, now)
         IN runs' = [runs EXCEPT ![r] =
                IF ~ok
                THEN [@ EXCEPT !.pc = "threw"]
                ELSE IF Len(list) = 0
                THEN [@ EXCEPT !.pc = "returned", !.results = EmptyResults]
                ELSE EnterBatch([@ EXCEPT !.list = list,
                                          !.results = NewResults(list),
                                          !.before = [n \in 1..Len(list) |->
                                              users[list[n]].last_greeting_sent]],
                                0, batchSize)]
    /\ UNCHANGED <<now, users, botId, batchSize, sends, writes, sched, starter,
                   settings, puts,
                   reply, fired, signals, again, saves, cast>>

\* bot.initialize(), the botId check and getActiveUsersForGreeting(); ok is
\* FALSE when initialize or the query throws
RunQuery(r) ==
    /\ runs[r].pc = "start"
    /\ \E ok \in BOOLEAN :
         LET list == getUsersForMorningGreeting(users, now)
         IN runs' = [runs EXCEPT ![r] =
                IF ~ok \/ ~botId
                THEN [@ EXCEPT !.pc = "threw"]
                ELSE IF Len(list) = 0
                THEN [@ EXCEPT !.pc = "returned", !.results = EmptyResults]
                ELSE EnterBatch([@ EXCEPT !.list = list,
                                          !.results = NewResults(list),
                                          !.before = [n \in 1..Len(list) |->
                                              users[list[n]].last_greeting_sent]],
                                0, batchSize)]
    /\ UNCHANGED <<now, users, botId, batchSize, sends, writes, sched, starter,
                   settings, puts,
                   reply, fired, signals, again, saves, cast>>

\* a loop body that leaves the run at the first failed result
OutcomeAborts(r, out) ==
    /\ users' = out.users
    /\ runs' = [runs EXCEPT ![r] =
            IF out.thrown \/ ~out.result.success
            THEN [@ EXCEPT !.pc = "threw", !.pending = NoMessage, !.waited = 0]
            ELSE [@ EXCEPT !.pc = "delay", !.pending = NoMessage, !.waited = 0,
                           !.results = recordResult(@, out.result)]]

\* a loop body that records the result and loses the write
OutcomeForgets(r, out) ==
    /\ users' = users
    /\ runs' = [runs EXCEPT ![r] =
            [@ EXCEPT !.pc = "delay", !.pending = NoMessage, !.waited = 0,
                      !.results = recordResult(@, out.result)]]

\* the end of sendGreetingToUser and lines 137-143 of the loop body: the
\* result is recorded; an exception leaves the loop through the outer catch
Outcome(r, out) ==
    /\ users' = out.users
    /\ runs' = [runs EXCEPT ![r] =
            IF out.thrown
            THEN [@ EXCEPT !.pc = "threw", !.pending = NoMessage, !.waited = 0]
            ELSE [@ EXCEPT !.pc = "delay", !.pending = NoMessage, !.waited = 0,
                           !.results = recordResult(@, out.result)]]

\* the row bot.sendMessage inserts into message_history: status 'sent' after
\* a message id, 'error' in its catch, no row when the call returned no id
HistoryRows(r, u, m) ==
    IF m.history = "none" THEN {}
    ELSE {[run |-> r, user |-> u, store |-> "message_history", at |-> now,
           status |-> m.history, by |-> "sendMessage"]}

\* sendGreetingToUser up to the end of bot.sendMessage
RunSend(r) ==
    /\ runs[r].pc = "send"
    /\ \E res \in ChannelResults :
         LET u == CurrentUser(runs[r])
             m == sendMessage(botId, res)
         IN /\ sends' = IF m.called
                        THEN sends \cup {[run |-> r, user |-> u, res |-> res,
                                          day |-> LocalDate(now)]}
                        ELSE sends
            /\ writes' = writes \cup HistoryRows(r, u, m)
            /\ IF m.thrown
               THEN Outcome(r, sendGreetingToUser(users, u, now, m, FALSE))
               ELSE /\ runs' = [runs EXCEPT ![r].pc = "mark", ![r].pending = m]
                    /\ users' = users
    /\ UNCHANGED <<now, botId, batchSize, sched, starter, settings, puts,
                   reply, fired, signals, again, saves, cast>>

\* sendGreetingToUser from database.updateLastGreeting to its return
RunMark(r) ==
    /\ runs[r].pc = "mark"
    /\ \E storeOk \in BOOLEAN :
         LET u == CurrentUser(runs[r])
             out == sendGreetingToUser(users, u, now, runs[r].pending, storeOk)
         IN /\ Outcome(r, out)
            /\ writes' = IF out.wrote
                         THEN writes \cup {[run |-> r, user |-> u,
                                            store |-> "users", at |-> now,
                                            status |-> "",
                                            by |-> "updateLastGreeting"]}
                         ELSE writes
    /\ UNCHANGED <<now, botId, batchSize, sends, sched, starter, settings, puts,
                   reply, fired, signals, again, saves, cast>>

\* saveGreetingStats: one message_history row per failed detail
StatsRows(r, results) ==
    {[run |-> r, user |-> results.details[n].userId,
      store |-> "message_history", at |-> now,
      status |-> "error", by |-> "saveGreetingStats"] :
        n \in {x \in 1..Len(results.details) : ~results.details[x].success}}

\* the delay after a message (config.bot.delayBetweenMessages is never 0),
\* then the next recipient of the batch, the pause before the next batch, or
\* the end of the run
RunDelay(r) ==
    /\ runs[r].pc = "delay"
    /\ IF runs[r].k < BatchLen(runs[r], batchSize)
       THEN /\ runs' = [runs EXCEPT ![r].pc = "send", ![r].k = @ + 1,
                                    ![r].waited = @ + 1]
            /\ writes' = writes
       ELSE IF runs[r].i + batchSize < Len(runs[r].list)
       THEN /\ runs' = [runs EXCEPT ![r].pc = "pause", ![r].waited = @ + 1]
            /\ writes' = writes
       ELSE /\ runs' = [runs EXCEPT ![r].pc = "returned", ![r].waited = @ + 1]
            /\ writes' = writes \cup StatsRows(r, runs[r].results)
    /\ UNCHANGED <<now, users, botId, batchSize, sends, sched, starter,
                   settings, puts,
                   reply, fired, signals, again, saves, cast>>

\* the index of the outer loop after i += batchSize; below -users.length
\* every slice is empty, and the index is kept at that value
NextIndex(run, bs) ==
    IF run.i + bs < 0 - Len(run.list) THEN 0 - Len(run.list) ELSE run.i + bs

\* the timers awaited after one more timer of n units; MaxWaited stands for
\* MaxWaited or more
Waited(run, n) ==
    IF run.waited + n > MaxWaited THEN MaxWaited ELSE run.waited + n

\* the pause of delay * 2 after a batch, i += batchSize, and the top of the
\* next pass of the outer loop (i < users.length holds after every pause)
RunPause(r) ==
    /\ runs[r].pc = "pause"
    /\ runs' = [runs EXCEPT ![r] =
            EnterBatch([@ EXCEPT !.waited = Waited(runs[r], 2)],
                       NextIndex(runs[r], batchSize), batchSize)]
    /\ UNCHANGED <<now, users, botId, batchSize, sends, writes, sched, starter,
                   settings, puts,
                   reply, fired, signals, again, saves, cast>>

\* a job handler whose failure stops the job
RunEndCancels(r) ==
    /\ runs[r].pc \in {"returned", "threw"}
    /\ runs' = [runs EXCEPT ![r].pc = "handled"]
    /\ settings' = IF runs[r].origin = "job" /\ runs[r].pc = "returned"
                   THEN [settings EXCEPT !.last_run = now]
                   ELSE settings
    /\ sched' = IF runs[r].origin = "job" /\ runs[r].pc = "threw"
                THEN stopJob(sched, "morning_greeting")
                ELSE sched
    /\ UNCHANGED <<now, users, botId, batchSize, sends, writes, starter,
                   puts, reply, fired, signals, again, saves, cast>>

\* a job handler that records last_run in a finally block
RunEndAlways(r) ==
    /\ runs[r].pc \in {"returned", "threw"}
    /\ runs' = [runs EXCEPT ![r].pc = "handled"]
    /\ settings' = IF runs[r].origin = "job"
                   THEN [settings EXCEPT !.last_run = now]
                   ELSE settings
    /\ UNCHANGED <<now, users, botId, batchSize, sends, writes, sched, starter,
                   puts, reply, fired, signals, again, saves, cast>>

\* the caller of sendMorningGreetings: the job handler records last_run when
\* the run returned and swallows its exception; the HTTP route answers
RunEnd(r) ==
    /\ runs[r].pc \in {"returned", "threw"}
    /\ runs' = [runs EXCEPT ![r].pc = "handled"]
    /\ settings' = IF runs[r].origin = "job" /\ runs[r].pc = "returned"
                   THEN [settings EXCEPT !.last_run = now]
                   ELSE settings
    /\ UNCHANGED <<now, users, botId, batchSize, sends, writes, sched, starter,
                   puts,
                   reply, fired, signals, again, saves, cast>>

----------------------------------------------------------------------------
(* PUT /api/schedule *)

FirstIdlePut(p) == \A q \in PutIds : puts[q].pc = "idle" => p <= q

\* the UPDATE of schedule_settings with a body of the set bodies; nothing in
\* the route checks the body
PutUpdateFrom(p, bodies) ==
    /\ Listening
    /\ puts[p].pc = "idle"
    /\ FirstIdlePut(p)
    /\ \E body \in bodies :
         settings' = [settings EXCEPT !.slot = body.slot,
                                      !.days_of_week = body.days_of_week,
                                      !.timezone = body.timezone]
    /\ puts' = [puts EXCEPT ![p].pc = "stop"]
    /\ UNCHANGED <<now, users, botId, batchSize, runs, sends, writes, sched,
                   starter, reply, fired, signals, again, saves, cast>>

PutUpdate(p) == PutUpdateFrom(p, Bodies)

PutUpdateAny(p) == PutUpdateFrom(p, AllBodies)

\* scheduler.stopJob('morning_greeting'), then the settings are read
PutStop(p) ==
    /\ puts[p].pc = "stop"
    /\ sched' = stopJob(sched, "morning_greeting")
    /\ puts' = [puts EXCEPT ![p].pc = "schedule",
                            ![p].read = getScheduleSettings(settings)]
    /\ UNCHANGED <<now, users, botId, batchSize, runs, sends, writes, starter,
                   settings, reply, fired, signals, again, saves, cast>>

\* scheduler.scheduleMorningGreeting(settings), then the answer: success, or
\* 500 when cron.schedule threw
PutSchedule(p) ==
    /\ puts[p].pc = "schedule"
    /\ Len(sched.tasks) < MaxTasks
    /\ sched' = scheduleMorningGreeting(sched, puts[p].read)
    /\ puts' = [puts EXCEPT ![p].pc =
                    IF ValidExpression([slot |-> puts[p].read.slot,
                                        days |-> puts[p].read.days_of_week])
                    THEN "done" ELSE "failed"]
    /\ UNCHANGED <<now, users, botId, batchSize, runs, sends, writes, starter,
                   settings, reply, fired, signals, again, saves, cast>>

----------------------------------------------------------------------------
(* gracefulShutdown *)

\* a shutdown that cancels the runs in flight
ShutdownCancels ==
    /\ signals < MaxSignals
    /\ signals' = signals + 1
    /\ sched' = stopAll(sched)
    /\ runs' = [r \in RunIds |->
                  IF runs[r].pc \in {"start", "send", "mark", "delay", "pause"}
                  THEN [runs[r] EXCEPT !.pc = "threw"]
                  ELSE runs[r]]
    /\ UNCHANGED <<now, users, botId, batchSize, sends, writes, starter,
                   settings, puts, reply, fired, again, saves, cast>>

\* SIGTERM or SIGINT: scheduler.stopAll(), then database.close() is awaited
\* and the process exits; the model goes on until that exit, which may come
\* at any later moment
Shutdown ==
    /\ signals < MaxSignals
    /\ signals' = signals + 1
    /\ sched' = stopAll(sched)
    /\ UNCHANGED <<now, users, botId, batchSize, runs, sends, writes, starter,
                   settings, puts, reply, fired, again, saves, cast>>

----------------------------------------------------------------------------
(* The other handlers that touch the users table or the delivery channel *)

\* the test sends made so far: the calls of the channel that belong to no run
TestSends == {s \in sends : s.run = 0}

\* a test send that marks its target like a run does
TestSendMarks(u) ==
    /\ Listening
    /\ botId
    /\ Cardinality(TestSends) < MaxTests
    /\ \E res \in ChannelResults :
         LET m == sendMessage(botId, res)
         IN /\ sends' = sends \cup {[run |-> 0, user |-> u, res |-> res,
                                     day |-> LocalDate(now)]}
            /\ writes' = writes \cup HistoryRows(0, u, m)
            /\ users' = IF m.thrown THEN users
                        ELSE updateLastGreeting(users, u, now)
    /\ UNCHANGED <<now, botId, batchSize, runs, sched, starter, settings,
                   puts, reply, fired, signals, again, saves, cast>>

\* POST /api/greetings/test and sendTestGreeting(u): the user is looked up by
\* id alone, bot.sendMessage is called and its exception goes to the caller;
\* when the bot is not registered the function throws before the lookup
TestSend(u) ==
    /\ Listening
    /\ botId
    /\ users[u].exists
    /\ Cardinality(TestSends) < MaxTests
    /\ \E res \in ChannelResults :
         LET m == sendMessage(botId, res)
         IN /\ sends' = sends \cup {[run |-> 0, user |-> u, res |-> res,
                                     day |-> LocalDate(now)]}
            /\ writes' = writes \cup HistoryRows(0, u, m)
    /\ UNCHANGED <<now, users, botId, batchSize, runs, sched, starter, settings,
                   puts, reply, fired, signals, again, saves, cast>>

\* the bodies of PATCH /api/users/:id: one column and its new value
PatchBodies ==
    [column : {"is_active"}, value : BOOLEAN]
        \cup [column : {"last_greeting_sent"}, value : LastValues]

\* PATCH /api/users/:id: every key of the body is a column of the UPDATE
PatchUser(u) ==
    /\ Listening
    /\ \E body \in PatchBodies :
         /\ users' = IF users[u].exists
                     THEN [users EXCEPT ![u][body.column] = body.value]
                     ELSE users
    /\ UNCHANGED <<now, botId, batchSize, runs, sends, writes, sched, starter,
                   settings, puts, reply, fired, signals, again, saves, cast>>

Commands == {"stop", "start"}

\* POST /webhook and BitrixBot.handleCommand for the commands stop and start:
\* the UPDATE of is_active, then the confirmation message, which is no
\* greeting and enters message_history alone
handleCommand(u, command) ==
    /\ Listening
    /\ users' = IF users[u].exists
                THEN [users EXCEPT ![u].is_active = (command = "start")]
                ELSE users
    /\ \E res \in ChannelResults :
         writes' = writes \cup HistoryRows(0, u, sendMessage(botId, res))
    /\ UNCHANGED <<now, botId, batchSize, runs, sends, sched, starter,
                   settings, puts, reply, fired, signals, again, saves, cast>>

----------------------------------------------------------------------------
(* User synchronisation (functions/users.js, Database.saveUser) *)

\* a saveUser that replaces the row it finds (INSERT OR REPLACE)
saveUserReplaces(us, u, existing) ==
    [us EXCEPT ![u] = NewUser]

\* Database.saveUser after its SELECT: the UPDATE sets the name, e-mail,
\* position and department columns alone; the INSERT fails on the UNIQUE
\* bitrix_id when another call has inserted the row since the SELECT
saveUser(us, u, existing) ==
    IF existing THEN us
    ELSE IF us[u].exists THEN us
    ELSE [us EXCEPT ![u] = NewUser]

\* syncUsers / importUsers calling saveUser for one user, up to the end of
\* SELECT id FROM users WHERE bitrix_id = ?
SaveLookup(c, u) ==
    /\ saves[c].pc \in {"idle", "done", "failed"}
    /\ saves' = [saves EXCEPT ![c] =
            [pc |-> "write", user |-> u, existing |-> users[u].exists]]
    /\ UNCHANGED <<now, users, botId, batchSize, runs, sends, writes, sched,
                   starter, settings, puts, reply, fired, signals, again, cast>>

\* saveUser from its UPDATE or INSERT to its return; a failed INSERT is
\* caught and counted by the caller
SaveWrite(c) ==
    /\ saves[c].pc = "write"
    /\ users' = saveUser(users, saves[c].user, saves[c].existing)
    /\ saves' = [saves EXCEPT ![c].pc =
            IF ~saves[c].existing /\ users[saves[c].user].exists
            THEN "failed" ELSE "done"]
    /\ UNCHANGED <<now, botId, batchSize, runs, sends, writes, sched,
                   starter, settings, puts, reply, fired, signals, again, cast>>

----------------------------------------------------------------------------
(* Broadcast (sendBroadcastMessage) *)

\* SELECT * FROM users WHERE is_active = 1 AND department LIKE ? AND
\* work_position LIKE ?, in the order of the table
BroadcastUsers(us, filter) ==
    SelectSeq(UserOrder,
              LAMBDA u : us[u].exists /\ us[u].is_active /\ u \in filter)

\* sendBroadcastMessage up to the end of its query: it throws without a bot
\* id and when the query fails; an empty list returns at once
CastQuery ==
    /\ cast.pc = "idle"
    /\ \E filter \in Filters, ok \in BOOLEAN :
         LET list == BroadcastUsers(users, filter)
         IN cast' = IF ~botId \/ ~ok
                    THEN [cast EXCEPT !.pc = "threw", !.filter = filter]
                    ELSE [cast EXCEPT !.pc = IF list = <<>> THEN "returned"
                                             ELSE "send",
                                      !.filter = filter, !.list = list,
                                      !.k = 1, !.total = Len(list)]
    /\ UNCHANGED <<now, users, botId, batchSize, runs, sends, writes, sched,
                   starter, settings, puts, reply, fired, signals, again, saves>>

\* the position after the user at k: the next user or the return
AfterUser(c, pc) ==
    IF c.k < Len(c.list) THEN [c EXCEPT !.pc = pc, !.k = @ + 1]
    ELSE [c EXCEPT !.pc = "returned"]

\* a loop body without its try: the failure of a send ends the broadcast
CastSendRethrows ==
    /\ cast.pc = "send"
    /\ \E res \in ChannelResults :
         LET u == cast.list[cast.k]
             m == sendMessage(botId, res)
             c == [cast EXCEPT !.attempts = Append(@, u)]
         IN /\ writes' = writes \cup HistoryRows(0, u, m)
            /\ cast' = IF m.thrown
                       THEN [c EXCEPT !.pc = "threw"]
                       ELSE [c EXCEPT !.pc = "delay", !.sent = @ + 1]
    /\ UNCHANGED <<now, users, botId, batchSize, runs, sends, sched,
                   starter, settings, puts, reply, fired, signals, again, saves>>

\* the loop body up to the end of bot.sendMessage: sent++ and the delay, or
\* errors++ in the catch and the next user without a delay
CastSend ==
    /\ cast.pc = "send"
    /\ \E res \in ChannelResults :
         LET u == cast.list[cast.k]
             m == sendMessage(botId, res)
             c == [cast EXCEPT !.attempts = Append(@, u)]
         IN /\ writes' = writes \cup HistoryRows(0, u, m)
            /\ cast' = IF m.thrown
                       THEN AfterUser([c EXCEPT !.errors = @ + 1], "send")
                       ELSE [c EXCEPT !.pc = "delay", !.sent = @ + 1]
    /\ UNCHANGED <<now, users, botId, batchSize, runs, sends, sched,
                   starter, settings, puts, reply, fired, signals, again, saves>>

\* the delay after a message that was sent, then the next user or the return
CastDelay ==
    /\ cast.pc = "delay"
    /\ cast' = AfterUser(cast, "send")
    /\ UNCHANGED <<now, users, botId, batchSize, runs, sends, writes, sched,
                   starter, settings, puts, reply, fired, signals, again, saves>>

----------------------------------------------------------------------------
(* A second call of Scheduler.start() *)

\* a start() that does not look at isRunning
StartAgainAlways ==
    /\ starter # "idle"
    /\ again = "idle"
    /\ sched' = [sched EXCEPT !.isRunning = TRUE]
    /\ again' = "await"
    /\ UNCHANGED <<now, users, botId, batchSize, runs, sends, writes, starter,
                   settings, puts, reply, fired, signals, saves, cast>>

\* Scheduler.start, called after the call of startServer, up to its await:
\* the early return while isRunning is set
StartAgain ==
    /\ starter # "idle"
    /\ again = "idle"
    /\ IF sched.isRunning
       THEN /\ sched' = sched
            /\ again' = "skipped"
       ELSE /\ sched' = [sched EXCEPT !.isRunning = TRUE]
            /\ again' = "await"
    /\ UNCHANGED <<now, users, botId, batchSize, runs, sends, writes, starter,
                   settings, puts, reply, fired, signals, saves, cast>>

\* the second call after its await: the job is scheduled
StartAgainFinish ==
    /\ again = "await"
    /\ Len(sched.tasks) < MaxTasks
    /\ sched' = IF getScheduleSettings(settings).is_active
                THEN scheduleMorningGreeting(sched, getScheduleSettings(settings))
                ELSE scheduleMorningGreetingFromConfig(sched)
    /\ again' = "done"
    /\ UNCHANGED <<now, users, botId, batchSize, runs, sends, writes, starter,
                   settings, puts, reply, fired, signals, saves, cast>>

----------------------------------------------------------------------------

Next ==
    \/ Tick
    \/ StartBegin
    \/ StartFinish
    \/ ServerJobs
    \/ ApiSend
    \/ \E name \in RouteNames : runJob(name)
    \/ \E r \in RunIds : RunQuery(r)
    \/ \E r \in RunIds : RunSend(r)
    \/ \E r \in RunIds : RunMark(r)
    \/ \E r \in RunIds : RunDelay(r)
    \/ \E r \in RunIds : RunPause(r)
    \/ \E r \in RunIds : RunEnd(r)
    \/ \E p \in PutIds : PutUpdateAny(p)
    \/ \E p \in PutIds : PutStop(p)
    \/ \E p \in PutIds : PutSchedule(p)
    \/ Shutdown
    \/ \E u \in UserIds : TestSend(u)
    \/ \E u \in UserIds : PatchUser(u)
    \/ \E u \in UserIds, command \in Commands : handleCommand(u, command)
    \/ StartAgain
    \/ StartAgainFinish
    \/ \E c \in SaveIds, u \in UserIds : SaveLookup(c, u)
    \/ \E c \in SaveIds : SaveWrite(c)
    \/ CastQuery
    \/ CastSend
    \/ CastDelay

Spec == Init /\ [][Next]_vars

----------------------------------------------------------------------------
(* The dispatch runs alone: the system while no PUT /api/schedule arrives   *)
(* and the last user of the table is not a recipient                        *)

NextDispatch ==
    \/ Tick
    \/ StartBegin
    \/ StartFinish
    \/ ServerJobs
    \/ ApiSend
    \/ runJob("morning_greeting")
    \/ \E r \in RunIds : RunQuery(r)
    \/ \E r \in RunIds : RunSend(r)
    \/ \E r \in RunIds : RunMark(r)
    \/ \E r \in RunIds : RunDelay(r)
    \/ \E r \in RunIds : RunPause(r)
    \/ \E r \in RunIds : RunEnd(r)

InitDispatch ==
    /\ Init
    /\ settings.slot = 1
    /\ ~users[UserOrder[3]].is_active
    /\ users[UserOrder[3]].last_greeting_sent = NULL

SpecDispatch == InitDispatch /\ [][NextDispatch]_vars

(* The batches of a run: the runs started by POST /api/greetings/send when   *)
(* the bot is registered and every user of the table is a recipient         *)

InitBatch ==
    /\ Init
    /\ settings.slot = 1
    /\ botId
    /\ \A u \in UserIds : users[u].is_active /\ users[u].last_greeting_sent = NULL

NextBatch ==
    \/ StartBegin
    \/ StartFinish
    \/ ServerJobs
    \/ ApiSend
    \/ \E r \in RunIds : RunQuery(r)
    \/ \E r \in RunIds : RunSend(r)
    \/ \E r \in RunIds : RunMark(r)
    \/ \E r \in RunIds : RunDelay(r)
    \/ \E r \in RunIds : RunPause(r)
    \/ \E r \in RunIds : RunEnd(r)

SpecBatch == InitBatch /\ [][NextBatch]_vars

(* The scheduler alone: the system while no recipient is eligible, so that   *)
(* every run returns from its query                                         *)

InitSched ==
    /\ Init
    /\ botId
    /\ batchSize = 1
    /\ \A u \in UserIds : ~users[u].is_active /\ users[u].last_greeting_sent = NULL

NextSched ==
    \/ Tick
    \/ StartBegin
    \/ StartFinish
    \/ ServerJobs
    \/ ApiSend
    \/ runJob("morning_greeting")
    \/ \E r \in RunIds : RunQuery(r)
    \/ \E r \in RunIds : RunEnd(r)
    \/ \E p \in PutIds : PutUpdate(p)
    \/ \E p \in PutIds : PutStop(p)
    \/ \E p \in PutIds : PutSchedule(p)

SpecSched == InitSched /\ [][NextSched]_vars

(* Rescheduling with any body: PUT /api/schedule with malformed bodies and   *)
(* bodies in another timezone                                               *)

NextTrig ==
    \/ Tick
    \/ StartBegin
    \/ StartFinish
    \/ ServerJobs
    \/ runJob("morning_greeting")
    \/ \E r \in RunIds : RunQuery(r)
    \/ \E r \in RunIds : RunEnd(r)
    \/ \E p \in PutIds : PutUpdateAny(p)
    \/ \E p \in PutIds : PutStop(p)
    \/ \E p \in PutIds : PutSchedule(p)

SpecTrig == InitSched /\ [][NextTrig]_vars

(* Firing by hand and stopping: any name in the run route, and the signals   *)

NextFire ==
    \/ Tick
    \/ StartBegin
    \/ StartFinish
    \/ ServerJobs
    \/ \E name \in RouteNames : runJob(name)
    \/ \E r \in RunIds : RunQuery(r)
    \/ \E r \in RunIds : RunEnd(r)
    \/ Shutdown

SpecFire == InitSched /\ [][NextFire]_vars

(* Stopping: the scheduler alone with the signals                            *)

NextStop ==
    \/ Tick
    \/ StartBegin
    \/ StartFinish
    \/ ServerJobs
    \/ ApiSend
    \/ runJob("morning_greeting")
    \/ \E r \in RunIds : RunQuery(r)
    \/ \E r \in RunIds : RunEnd(r)
    \/ \E p \in PutIds : PutUpdate(p)
    \/ \E p \in PutIds : PutStop(p)
    \/ \E p \in PutIds : PutSchedule(p)
    \/ Shutdown

SpecStop == InitSched /\ [][NextStop]_vars

(* Two triggers: the dispatch runs from one unit earlier, so that the clock  *)
(* passes the slot of user_sync and then the slot of morning_greeting       *)

InitOverlap ==
    /\ InitAt(StartTime - 1)
    /\ settings.slot = 1
    /\ botId
    /\ batchSize = 1
    /\ \A u \in UserIds :
          /\ users[u].is_active <=> u # UserOrder[3]
          /\ users[u].last_greeting_sent = NULL

SpecOverlap == InitOverlap /\ [][NextDispatch]_vars

(* The runs to their end: the steps of a run are continuations of awaited   *)
(* calls and timers, which the event loop runs once they have settled, so   *)
(* every run that can take a step takes it; triggers are stopped by         *)
(* PUT /api/schedule and by the signals meanwhile                           *)

RunStep(r) ==
    \/ RunQuery(r)
    \/ RunSend(r)
    \/ RunMark(r)
    \/ RunDelay(r)
    \/ RunPause(r)
    \/ RunEnd(r)

InitLive ==
    /\ InitWith(StartTime, BatchSizes, SettingsRows)
    /\ settings.slot = 1
    /\ botId
    /\ \A u \in UserIds :
          /\ users[u].is_active <=> u # UserOrder[3]
          /\ users[u].last_greeting_sent = NULL

NextLive ==
    \/ Tick
    \/ StartBegin
    \/ StartFinish
    \/ ServerJobs
    \/ \E r \in RunIds : RunQuery(r)
    \/ \E r \in RunIds : RunSend(r)
    \/ \E r \in RunIds : RunMark(r)
    \/ \E r \in RunIds : RunDelay(r)
    \/ \E r \in RunIds : RunPause(r)
    \/ \E r \in RunIds : RunEnd(r)
    \/ PutUpdate(1)
    \/ PutStop(1)
    \/ PutSchedule(1)
    \/ Shutdown

SpecLive ==
    InitLive /\ [][NextLive]_vars /\ \A r \in RunIds : WF_vars(RunStep(r))

(* The users table: the runs started by POST /api/greetings/send while the  *)
(* first user is patched and the second user sends /stop and /start         *)

InitUsers ==
    /\ Init
    /\ settings.slot = DefaultSlot
    /\ botId
    /\ batchSize = 1
    /\ \A u \in UserIds :
          /\ users[u].is_active <=> u # UserOrder[3]
          /\ users[u].last_greeting_sent = NULL <=> u # UserOrder[3]

NextUsers ==
    \/ StartBegin
    \/ StartFinish
    \/ ServerJobs
    \/ ApiSend
    \/ \E r \in RunIds : RunQuery(r)
    \/ \E r \in RunIds : RunSend(r)
    \/ \E r \in RunIds : RunMark(r)
    \/ \E r \in RunIds : RunDelay(r)
    \/ \E r \in RunIds : RunPause(r)
    \/ \E r \in RunIds : RunEnd(r)
    \/ PatchUser(UserOrder[1])
    \/ \E command \in Commands : handleCommand(UserOrder[2], command)

SpecUsers == InitUsers /\ [][NextUsers]_vars

(* The handlers outside the runs: test sends, user patches and commands     *)
(* for any user of the table                                                *)

NextTest ==
    \/ StartBegin
    \/ StartFinish
    \/ ServerJobs
    \/ \E u \in UserIds : TestSend(u)
    \/ \E u \in UserIds : PatchUser(u)
    \/ \E u \in UserIds, command \in Commands : handleCommand(u, command)

SpecTest == Init /\ [][NextTest]_vars

(* Starting: the scheduler with a stored row that may be inactive, a second  *)
(* call of start() and the signals, while no recipient is eligible          *)

InitStart ==
    /\ InitWith(StartTime, {1}, StoredRows)
    /\ botId
    /\ \A u \in UserIds : ~users[u].is_active /\ users[u].last_greeting_sent = NULL

NextStart ==
    \/ Tick
    \/ StartBegin
    \/ StartFinish
    \/ ServerJobs
    \/ StartAgain
    \/ StartAgainFinish
    \/ \E r \in RunIds : RunQuery(r)
    \/ \E r \in RunIds : RunEnd(r)
    \/ Shutdown

SpecStart == InitStart /\ [][NextStart]_vars

\* the synchronisation of users beside the first dispatch run and the commands
\* of one user: the first user is unsubscribed, the second subscribed, the third
\* has no row yet
InitSync ==
    /\ now = StartTime
    /\ users \in [UserIds -> UserRows \cup {NoUser}]
    /\ ~users[UserOrder[1]].is_active /\ users[UserOrder[1]].exists
    /\ users[UserOrder[2]].is_active
    /\ users[UserOrder[3]] = NoUser
    /\ botId = TRUE
    /\ batchSize = 1
    /\ runs = [r \in RunIds |-> IdleRun]
    /\ sends = {}
    /\ writes = {}
    /\ sched = [jobs |-> [n \in JobNames |-> 0], tasks |-> <<>>,
                isRunning |-> FALSE]
    /\ starter = "idle"
    /\ settings = DefaultSettings
    /\ puts = [p \in PutIds |-> IdlePut]
    /\ reply = NoReply
    /\ fired = [name \in OtherJobs |-> 0]
    /\ signals = 0
    /\ again = "idle"
    /\ saves = [c \in SaveIds |-> IdleSave]
    /\ cast = IdleCast

NextSync ==
    \/ StartBegin
    \/ StartFinish
    \/ ServerJobs
    \/ ApiSend
    \/ RunQuery(1)
    \/ RunSend(1)
    \/ RunMark(1)
    \/ RunDelay(1)
    \/ RunPause(1)
    \/ RunEnd(1)
    \/ \E c \in SaveIds, u \in UserIds : SaveLookup(c, u)
    \/ \E c \in SaveIds : SaveWrite(c)
    \/ \E command \in Commands : handleCommand(UserOrder[2], command)

SpecSync == InitSync /\ [][NextSync]_vars

\* one broadcast beside the commands of one of its recipients
InitCast == InitWith(StartTime, {1}, {DefaultSettings})

NextCast ==
    \/ StartBegin
    \/ StartFinish
    \/ ServerJobs
    \/ CastQuery
    \/ CastSend
    \/ CastDelay
    \/ \E command \in Commands : handleCommand(UserOrder[2], command)

SpecCast == InitCast /\ [][NextCast]_vars

----
(* Properties *)

Elems(seq) == {seq[n] : n \in 1..Len(seq)}

\* the run has called sendMorningGreetings and its caller has not finished
InFlight(r) == runs[r].pc \in {"start", "send", "mark", "delay", "pause"}

Returned(r) == runs[r].pc = "returned"

\* the calls of the delivery channel run r made for user u
SendsOf(r, u) == {s \in sends : s.run = r /\ s.user = u}

\* the writes of last_greeting_sent run r made for user u
MarksOf(r, u) == {w \in writes : w.run = r /\ w.user = u /\ w.store = "users"}

\* C1: on one calendar day every recipient is successfully delivered at most
\* one greeting, whatever runs take place (scheduled, runJob, POST
\* /api/greetings/send).
C1_NoDuplicateSends ==
    \A u \in UserIds : \A s1, s2 \in sends :
        (/\ s1.user = u /\ s2.user = u
         /\ s1.res = "id" /\ s2.res = "id"
         /\ s1.day = s2.day)
        => s1 = s2

\* C2: last_greeting_sent is written by a run only after the delivery channel
\* confirmed the send to that recipient in that run: a send that failed or
\* returned no message id is never marked.
C2_MarkedOnlyAfterConfirmedSend ==
    \A w \in writes :
        w.store = "users" => \E s \in SendsOf(w.run, w.user) : s.res = "id"

\* C3: at most one run of the morning-greeting job handler is in flight at
\* any time, whether the handler was invoked by its schedule or by runJob.
C3_OneJobRunInFlight ==
    Cardinality({r \in RunIds : runs[r].origin = "job" /\ InFlight(r)}) <= 1

\* C4: a recipient whose greeting was recorded at time T is excluded by the
\* eligibility query at every later time of the same calendar date in the
\* configured timezone, and included (if active) on the next date there.
C4_EligibilityByLocalDate ==
    \A u \in UserIds :
        LET T == users[u].last_greeting_sent
            eligible == u \in Elems(getUsersForMorningGreeting(users, now))
        IN (T # NULL /\ T >= StartTime) =>
              /\ LocalDate(now) = LocalDate(T) => ~eligible
              /\ (LocalDate(now) = LocalDate(T) + 1 /\ users[u].is_active)
                    => eligible

\* C5: a recipient whose active flag is false is in no eligible set the
\* query returns, whatever its last_greeting_sent: neither in the list a run
\* obtains from its query nor in the result of the query in any state.
C5_InactiveNeverEligible ==
    /\ [](\A u \in UserIds :
            ~users[u].is_active
                => u \notin Elems(getUsersForMorningGreeting(users, now)))
    /\ [][\A r \in RunIds :
            (runs[r].pc = "start" /\ runs'[r].pc = "send")
                => \A u \in Elems(runs'[r].list) : users[u].is_active]_vars

\* an inactive recipient greeted on an earlier day is left out of the list of
\* a run that found somebody to greet
C5_Witness ==
    \E r \in RunIds : \E u \in UserIds :
        /\ runs[r].pc = "send" /\ runs[r].results.details = <<>>
        /\ ~users[u].is_active
        /\ users[u].last_greeting_sent # NULL
        /\ UtcDate(users[u].last_greeting_sent) < UtcDate(now)
        /\ u \notin Elems(runs[r].list)

\* C6: a delivery failure never aborts the run: the run that entered its loop
\* never throws, its outcomes are those of the recipients of its list in
\* order, and when it returns every recipient of the list was attempted
\* exactly once.
C6_FailureNeverAborts ==
    \A r \in RunIds :
        LET run == runs[r]
            details == run.results.details
        IN /\ run.list # <<>> => run.pc # "threw"
           /\ Len(details) <= Len(run.list)
           /\ \A n \in 1..Len(details) : details[n].userId = run.list[n]
           /\ (run.list # <<>> /\ run.pc \in {"returned", "handled"})
                 => /\ Len(details) = Len(run.list)
                    /\ \A u \in Elems(run.list) : Cardinality(SendsOf(r, u)) = 1

\* a run of two batches returned although its first recipient failed
C6_Witness ==
    \E r \in RunIds :
        /\ Returned(r) /\ batchSize = 1
        /\ Len(runs[r].results.details) = 2
        /\ ~runs[r].results.details[1].success
        /\ SendsOf(r, runs[r].list[2]) # {}

C8_AfterRunByChannelResult ==
    \A r \in RunIds : \A x, y \in 1..Len(runs[r].list) :
        LET X == runs[r].list[x]
            Y == runs[r].list[y]
        IN (/\ Returned(r)
            /\ \E s \in SendsOf(r, X) : s.res = "throw"
            /\ \E s \in SendsOf(r, Y) : s.res = "id")
           => /\ users[X].last_greeting_sent = runs[r].before[x]
              /\ \E w \in MarksOf(r, Y) : users[Y].last_greeting_sent = w.at

\* the step of run r that records the outcome of a recipient
Records(r) ==
    Len(runs'[r].results.details) = Len(runs[r].results.details) + 1

\* C8 amended: the step that records a failed outcome (the channel failed, or
\* the store write failed) changes no last_greeting_sent; the step that
\* records a success sets the last_greeting_sent of that recipient, and of
\* nobody else, to the time of the step; and last_greeting_sent changes in no
\* other step, so the run never writes the record of a recipient it failed.
C8_FrameOfOutcome ==
    [][/\ \A r \in RunIds :
            Records(r) =>
                LET u == CurrentUser(runs[r])
                    d == runs'[r].results.details[Len(runs'[r].results.details)]
                IN /\ d.userId = u
                   /\ ~d.success => users' = users
                   /\ d.success =>
                        /\ users'[u].last_greeting_sent = now
                        /\ \A v \in UserIds \ {u} : users'[v] = users[v]
                   /\ (\E s \in sends' : s.run = r /\ s.user = u /\ s.res = "throw")
                        => ~d.success
       /\ users' # users => \E r \in RunIds : Records(r)]_vars

\* a run returned after the channel failed for its first recipient, whose
\* record it left alone, and succeeded for the second, marked at that time
C8_Witness ==
    \E r \in RunIds :
        /\ Returned(r) /\ Len(runs[r].list) = 2
        /\ \E s \in SendsOf(r, runs[r].list[1]) : s.res = "throw"
        /\ \E s \in SendsOf(r, runs[r].list[2]) : s.res = "id"
        /\ MarksOf(r, runs[r].list[1]) = {}
        /\ users[runs[r].list[1]].last_greeting_sent = runs[r].before[1]
        /\ \E w \in MarksOf(r, runs[r].list[2]) :
              users[runs[r].list[2]].last_greeting_sent = w.at

\* C9: a dispatch over an empty recipient set returns total 0, sent 0,
\* failed 0 and an empty outcome list, and sends nothing and writes no store.
C9_EmptyDispatch ==
    \A r \in RunIds :
        (Returned(r) /\ runs[r].list = <<>>)
            => /\ runs[r].results.total = 0
               /\ runs[r].results.sent = 0
               /\ runs[r].results.errors = 0
               /\ runs[r].results.hasDetails /\ runs[r].results.details = <<>>
               /\ {s \in sends : s.run = r} = {}
               /\ {w \in writes : w.run = r} = {}

\* C10: whatever define and reschedule operations took place on a name, in
\* sequence or interleaved, at most one trigger object is live for it, the
\* registered one, so that an occurrence invokes the handler once: once when
\* the registered trigger matches, not at all otherwise.
C10_OneLiveTrigger ==
    /\ [](\A name \in JobNames :
            /\ Cardinality(LiveTasks(sched, name)) <= 1
            /\ LiveTasks(sched, name) \subseteq {sched.jobs[name]})
    /\ [][now' # now =>
            LET started == {r \in RunIds :
                                runs[r].pc = "idle" /\ runs'[r].pc = "start"}
                job == sched.jobs["morning_greeting"]
            IN Cardinality(started) =
                  IF job # 0 /\ Matches(sched.tasks[job], now') THEN 1 ELSE 0]_vars

\* start() and two PUT /api/schedule have completed: three triggers were
\* created and only the last is live
C10_Witness ==
    /\ starter = "done"
    /\ \A p \in PutIds : puts[p].pc = "done"
    /\ Cardinality({n \in 1..Len(sched.tasks) :
                        sched.tasks[n].name = "morning_greeting"}) >= 3
    /\ LiveTasks(sched, "morning_greeting") = {sched.jobs["morning_greeting"]}
    /\ sched.jobs["morning_greeting"] # 0

\* the step in which run r calls the delivery channel for a recipient
Sends(r) == runs[r].pc = "send" /\ runs'[r].pc # "send"

\* the position in the list of the recipient run r is at
Position(r) == runs[r].i + runs[r].k

\* the run goes through consecutive batches of at most batchSize recipients
InBatches(r) ==
    runs[r].pc \in {"send", "mark", "delay", "pause"} =>
        /\ runs[r].i % batchSize = 0
        /\ runs[r].k \in 1..batchSize
        /\ Position(r) \in 1..Len(runs[r].list)

\* C11 as stated: the list is cut into consecutive batches of at most
\* batchSize; one delay lies between two sends of a batch, and two delays
\* between the last send of a batch and the first send of the next.
C11_BatchPauses ==
    /\ [](\A r \in RunIds : InBatches(r))
    /\ [][\A r \in RunIds :
            Sends(r) =>
                runs[r].waited = IF Position(r) = 1 THEN 0
                                 ELSE IF runs[r].k > 1 THEN 1 ELSE 2]_vars

\* C11 amended: the list is cut into consecutive batches of at most
\* batchSize; the delay is awaited after every send, the last of a batch and
\* of the run included, and between two batches a pause of two delays is
\* awaited in addition: one delay lies between two sends of a batch, three
\* between the last send of a batch and the first send of the next; the pause
\* is awaited only when a batch follows, so after the last send the run awaits
\* one delay and returns.
C11_BatchTimers ==
    /\ [](\A r \in RunIds :
            /\ InBatches(r)
            /\ runs[r].pc = "pause"
                  => Position(r) < Len(runs[r].list) /\ runs[r].k = batchSize)
    /\ [][\A r \in RunIds :
            /\ Sends(r) =>
                  runs[r].waited = IF Position(r) = 1 THEN 0
                                   ELSE IF runs[r].k > 1 THEN 1 ELSE 3
            /\ (runs[r].pc # "returned" /\ runs'[r].pc = "returned"
                    /\ runs[r].list # <<>>)
                  => /\ runs[r].pc = "delay"
                     /\ Position(r) = Len(runs[r].list)
                     /\ runs'[r].waited = 1]_vars

\* a run of three recipients and batches of two is about to send to the third
\* recipient, the first of the second batch, after the delay and the pause
C11_Witness ==
    \E r \in RunIds :
        /\ batchSize = 2 /\ Len(runs[r].list) = 3
        /\ runs[r].pc = "send" /\ runs[r].i = 2 /\ runs[r].k = 1
        /\ runs[r].waited = 3
        /\ Len(runs[r].results.details) = 2

\* C12: a run processes its recipients one at a time in the order of the
\* list: while it sends to the recipient at position n, or writes its record,
\* the outcomes of the n - 1 recipients before it are recorded and no other;
\* the send goes to the recipient at position n; and the outcomes list the
\* recipients in the order of the list.
C12_SequentialInOrder ==
    /\ [](\A r \in RunIds :
            LET details == runs[r].results.details
            IN /\ runs[r].pc \in {"send", "mark"}
                    => Len(details) = Position(r) - 1
               /\ runs[r].pc \in {"delay", "pause"}
                    => Len(details) = Position(r)
               /\ \A n \in 1..Len(details) : details[n].userId = runs[r].list[n])
    /\ [][\A r \in RunIds :
            /\ Sends(r) =>
                  \A s \in sends' \ sends :
                      s.run = r => s.user = runs[r].list[Position(r)]
            /\ Records(r) =>
                  /\ runs[r].pc \in {"send", "mark"}
                  /\ runs'[r].results.details[Position(r)].userId
                        = runs[r].list[Position(r)]
            /\ (runs[r].pc \in {"delay", "pause"} /\ runs'[r].pc = "send")
                  => Position(r)' = Position(r) + 1]_vars

\* a run returned the outcomes of three recipients: a failure between two
\* successes, one send to each
C12_Witness ==
    \E r \in RunIds :
        /\ Returned(r) /\ Len(runs[r].list) = 3
        /\ Len(runs[r].results.details) = 3
        /\ runs[r].results.details[1].success
        /\ ~runs[r].results.details[2].success
        /\ runs[r].results.details[3].success
        /\ \A u \in UserIds : Cardinality(SendsOf(r, u)) = 1

\* the task registered under a name
Registered(s, name) == s.tasks[s.jobs[name]]

\* the cron expression of a settings row
ExpressionOf(row) == [slot |-> row.slot, days |-> row.days_of_week]

\* C13: the next occurrence computed for a trigger is the first time strictly
\* after now at which its hour:minute and a weekday of daysOfWeek are reached
\* in the timezone of the trigger.
C13_NextOccurrence ==
    \A name \in JobNames :
        Has(sched, name) =>
            LET task == Registered(sched, name)
                next == getNextRunTime([slot |-> task.slot, days |-> task.days],
                                       now)
            IN /\ next # NULL
               /\ next > now
               /\ next = NextOccurrence(task, now)
               /\ Weekday(DateIn(task.timezone, next)) \in task.days

\* C14: a reschedule whose definition has an hour outside the day or no day
\* of the week is rejected without an effect on the scheduler: the step that
\* stops the job and the step that schedules leave the live trigger of the
\* name as it was, nothing is registered, and the call fails.
C14_InvalidRejected ==
    [][\A p \in PutIds :
          /\ (/\ puts[p].pc = "stop" /\ puts'[p].pc = "schedule"
              /\ ~ValidExpression(ExpressionOf(puts'[p].read)))
                => LiveTasks(sched', "morning_greeting")
                      = LiveTasks(sched, "morning_greeting")
          /\ (/\ puts[p].pc = "schedule" /\ puts'[p].pc # "schedule"
              /\ ~ValidExpression(ExpressionOf(puts[p].read)))
                => /\ puts'[p].pc = "failed"
                   /\ Len(sched'.tasks) = Len(sched.tasks)
                   /\ LiveTasks(sched', "morning_greeting")
                         = LiveTasks(sched, "morning_greeting")]_vars

\* C15: the trigger a reschedule registers fires in the timezone of the
\* definition it was given: at the times at which the hour:minute of the
\* definition is reached in that timezone on a day of the definition.
C15_FiresInOwnTimezone ==
    [][\A p \in PutIds :
          (puts[p].pc = "schedule" /\ puts'[p].pc = "done") =>
              LET task == Registered(sched', "morning_greeting")
                  row == puts[p].read
              IN /\ task.timezone = row.timezone
                 /\ \A t \in now..(now + DayLen) :
                       Matches(task, t) <=>
                           /\ SlotIn(row.timezone, t) = row.slot
                           /\ Weekday(DateIn(row.timezone, t))
                                 \in row.days_of_week]_vars

\* the runs of the job handler that start in a step
JobRunsStarted ==
    {r \in RunIds : runs[r].pc = "idle" /\ runs'[r].pc = "start"
                        /\ runs'[r].origin = "job"}

\* the live tasks of a name that are due at time t
Due(s, name, t) == {n \in LiveTasks(s, name) : Matches(s.tasks[n], t)}

\* when the clock passes an occurrence, every live task that is due invokes
\* its handler once, and no other handler is invoked
TickFires ==
    now' # now =>
        /\ Cardinality(JobRunsStarted)
              = Cardinality(Due(sched, "morning_greeting", now'))
        /\ \A name \in OtherJobs :
              fired'[name] = fired[name] + Cardinality(Due(sched, name, now'))

\* C16: firing a registered trigger by hand invokes its handler once, at
\* once, and changes nothing of the scheduler: the trigger stays registered
\* and live and its next occurrence is what it was, and at that occurrence
\* the clock fires it as it fires every live trigger.
C16_ManualFireFrame ==
    [][/\ (now' = now /\ (JobRunsStarted # {} \/ fired' # fired)) =>
              /\ sched' = sched
              /\ reply'.found /\ Has(sched, reply'.name)
              /\ IF reply'.name = "morning_greeting"
                 THEN Cardinality(JobRunsStarted) = 1 /\ fired' = fired
                 ELSE /\ JobRunsStarted = {}
                      /\ fired' = [fired EXCEPT ![reply'.name] = @ + 1]
              /\ \A name \in JobNames :
                    Has(sched, name) =>
                        /\ Has(sched', name)
                        /\ Registered(sched', name).live
                              = Registered(sched, name).live
                        /\ NextOccurrence(Registered(sched', name), now')
                              = NextOccurrence(Registered(sched, name), now)
       /\ TickFires]_vars

\* the morning greeting was fired by hand and its handler had finished
\* before the clock reached the occurrence of the trigger, which is still
\* registered and live
C16_Witness ==
    /\ now = StartTime + 1
    /\ settings.last_run = StartTime
    /\ reply.name = "morning_greeting" /\ reply.found
    /\ Has(sched, "morning_greeting")
    /\ Registered(sched, "morning_greeting").live
    /\ Matches(Registered(sched, "morning_greeting"), now)
    /\ \E r \in RunIds : runs[r].origin = "job" /\ runs[r].pc = "start"

\* C17: firing a name that is not registered invokes no handler, changes no
\* scheduler state and is answered NotFound; the answer is success only when
\* the name is registered.
C17_UnknownNotFound ==
    /\ [](reply.status # "none" =>
            /\ reply.status = "success" => reply.found
            /\ ~reply.found => reply.status = "NotFound")
    /\ [][(reply' # reply /\ ~reply'.found) =>
            /\ runs' = runs
            /\ fired' = fired
            /\ sched' = sched]_vars

\* C18: stopJob and stopAll are idempotent, and stopJob on a name that is not
\* registered changes nothing; after the stop of a name no task of the name
\* is live, after stopAll no task at all; a stopped task is never live again
\* and the clock invokes the handlers of live tasks only.
C18_StopIdempotentAndFinal ==
    /\ [](/\ stopAll(stopAll(sched)) = stopAll(sched)
          /\ \A name \in JobNames :
                /\ stopJob(stopJob(sched, name), name) = stopJob(sched, name)
                /\ ~Has(sched, name) => stopJob(sched, name) = sched
                /\ ~Has(stopJob(sched, name), name)
                /\ ~Has(stopAll(sched), name))
    /\ [][/\ \A p \in PutIds :
                (puts[p].pc = "stop" /\ puts'[p].pc = "schedule")
                    => /\ sched' = stopJob(sched, "morning_greeting")
                       /\ LiveTasks(sched', "morning_greeting") = {}
          /\ signals' # signals =>
                /\ sched' = stopAll(sched)
                /\ \A name \in JobNames : LiveTasks(sched', name) = {}
          /\ \A n \in 1..Len(sched.tasks) :
                ~sched.tasks[n].live => ~sched'.tasks[n].live
          /\ TickFires]_vars

\* both PUT requests have called stopJob, the second on a name that was not
\* registered, stopAll has run twice, and the clock has passed the occurrence
\* of the stopped trigger without a run
C18_Witness ==
    /\ signals = 2
    /\ \A p \in PutIds : puts[p].pc = "schedule"
    /\ now = StartTime + 1
    /\ Len(sched.tasks) = 3
    /\ ~sched.tasks[1].live /\ Matches(sched.tasks[1], now)
    /\ \A name \in JobNames : ~Has(sched, name)
    /\ \A r \in RunIds : runs[r].pc = "idle"

\* C19: the failure of a dispatch run started by the job handler ends in
\* the handler: the step that handles it changes nothing of the scheduler,
\* the trigger stays registered and live, and the clock goes on firing it.
C19_HandlerFailureCaught ==
    [][/\ \A r \in RunIds :
            (runs[r].pc = "threw" /\ runs'[r].pc # "threw") =>
                /\ runs'[r].pc = "handled"
                /\ sched' = sched
                /\ starter' = starter
                /\ settings' = settings
       /\ TickFires]_vars

\* a run of the job handler failed and was handled, and the trigger, still
\* registered and live, has started the handler again
C19_Witness ==
    /\ settings.last_run = NULL
    /\ now = StartTime + 1
    /\ Has(sched, "morning_greeting")
    /\ Registered(sched, "morning_greeting").live
    /\ Matches(Registered(sched, "morning_greeting"), now)
    /\ \E r1, r2 \in RunIds :
          /\ runs[r1].origin = "job" /\ runs[r1].pc = "handled"
          /\ runs[r2].origin = "job" /\ runs[r2].pc = "start"

\* C20: an occurrence that elapses while dispatch runs are in flight is
\* fired like any other: when the clock passes it every live task that is
\* due invokes its handler, whatever the runs are doing.
C20_OtherTriggersFire ==
    [][/\ TickFires
       /\ (now' # now /\ \E r \in RunIds : InFlight(r)) =>
              \A name \in OtherJobs :
                  (Has(sched, name) /\ Matches(Registered(sched, name), now'))
                      => fired'[name] = fired[name] + 1]_vars

\* a run that sent a greeting on the day before is still waiting between two
\* recipients after the clock passed the occurrence of user_sync, whose
\* handler was invoked
C20_Witness ==
    \E r \in RunIds :
        /\ runs[r].pc \in {"delay", "pause"}
        /\ \E s \in sends : s.run = r /\ s.day = LocalDate(now) - 1
        /\ Matches(Registered(sched, "user_sync"), now)
        /\ fired["user_sync"] = 1

----------------------------------------------------------------------------

\* a live task is stopped in this step
StopStep ==
    \E n \in 1..Len(sched.tasks) : sched.tasks[n].live /\ ~sched'.tasks[n].live

Stopped == LiveTasks(sched, "morning_greeting") = {}

\* the run has returned after it processed every recipient of its list
Completed(r) ==
    /\ runs[r].pc \in {"returned", "handled"}
    /\ Len(runs[r].results.details) = Len(runs[r].list)

----------------------------------------------------------------------------

\* some run or other wrote last_greeting_sent of user u
Marked(u) == \E w \in writes : w.user = u /\ w.store = "users"

\* C22 as stated: when the process is shut down during a run, every
\* recipient whose send has succeeded is marked, and every recipient not yet
\* processed is unmarked and eligible
C22_ConsistentAtAbort ==
    signals >= 1 =>
        \A r \in RunIds : \A n \in 1..Len(runs[r].list) :
            LET u == runs[r].list[n]
                delivered == \E s \in SendsOf(r, u) : s.res = "id"
            IN /\ delivered =>
                    users[u].last_greeting_sent # runs[r].before[n]
               /\ (~delivered /\ n > Len(runs[r].results.details)) =>
                    /\ users[u].last_greeting_sent = runs[r].before[n]
                    /\ IsEligible(users, u, now)

\* C22 (amended): at every moment of a run, a recipient whose outcome is
\* recorded as sent is marked, a recipient whose outcome is recorded as
\* failed was not written by the run, and a recipient without an outcome yet
\* (the one in processing included, whose greeting may have been delivered)
\* was not written by the run and, when no other run wrote it, has the record
\* the query saw and is eligible
C22_PartialState ==
    \A r \in RunIds : \A n \in 1..Len(runs[r].list) :
        LET u == runs[r].list[n]
            details == runs[r].results.details
        IN /\ (n <= Len(details) /\ details[n].success) =>
                /\ details[n].userId = u
                /\ MarksOf(r, u) # {}
                /\ users[u].last_greeting_sent # runs[r].before[n]
           /\ (n <= Len(details) /\ ~details[n].success) => MarksOf(r, u) = {}
           /\ n > Len(details) =>
                /\ MarksOf(r, u) = {}
                /\ ~Marked(u) =>
                      /\ users[u].last_greeting_sent = runs[r].before[n]
                      /\ IsEligible(users, u, now)

\* a signal has arrived while the run has marked its first recipient and has
\* delivered the greeting of the second, which is not marked yet
C22_Witness ==
    \E r \in RunIds :
        /\ signals >= 1
        /\ runs[r].pc = "mark"
        /\ runs[r].pending.messageId
        /\ Len(runs[r].results.details) = 1
        /\ runs[r].results.details[1].success
        /\ users[runs[r].list[1]].last_greeting_sent = now
        /\ users[runs[r].list[2]].last_greeting_sent = NULL

----------------------------------------------------------------------------

\* C23: a step in which a test send calls the delivery channel, with any
\* result and for any target, leaves the users table as it is and writes no
\* last_greeting_sent
C23_TestSendLeavesStore ==
    [][TestSends' # TestSends =>
          /\ users' = users
          /\ \A w \in writes' \ writes : w.store # "users"]_vars

\* a test send was delivered to a user the eligibility query does not select,
\* whose last_greeting_sent is still empty, and another test send failed
C23_Witness ==
    \E s \in TestSends, t \in TestSends :
        /\ s.res = "id"
        /\ ~users[s.user].is_active
        /\ ~IsEligible(users, s.user, now)
        /\ users[s.user].last_greeting_sent = NULL
        /\ t.res = "throw"

----------------------------------------------------------------------------

\* C24 as stated: whatever the batch size, a run that has its list of
\* recipients returns with an outcome for every recipient
C24_AlwaysCompletes ==
    \A r \in RunIds : (runs[r].list # <<>>) ~> Completed(r)

----------------------------------------------------------------------------

\* the run is at the write of last_greeting_sent and the write fails in this
\* step
StoreFails(r) ==
    /\ runs[r].pc = "mark"
    /\ runs'[r].pc # "mark"
    /\ ~\E w \in writes' \ writes : w.run = r /\ w.store = "users"

\* C25: when the write of last_greeting_sent fails, the recipient gets a
\* failed outcome with the error of the store, its record stays as it was,
\* and the run goes on to the delay and the next recipient: a run with such
\* an outcome never throws and returns with an outcome for every recipient
C25_StoreFailureContinues ==
    /\ [][\A r \in RunIds : StoreFails(r) =>
            /\ runs'[r].pc = "delay"
            /\ runs'[r].results.details =
                   Append(runs[r].results.details,
                          [success |-> FALSE, userId |-> CurrentUser(runs[r]),
                           error |-> "store"])
            /\ runs'[r].results.errors = runs[r].results.errors + 1
            /\ runs'[r].results.sent = runs[r].results.sent
            /\ users' = users]_vars
    /\ [](\A r \in RunIds :
            (\E n \in 1..Len(runs[r].results.details) :
                 runs[r].results.details[n].error = "store") =>
                /\ runs[r].pc # "threw"
                /\ runs[r].pc \in {"returned", "handled"} =>
                      Len(runs[r].results.details) = Len(runs[r].list))

\* a run has returned: the write failed for its first recipient and its
\* second recipient was processed and marked after that
C25_Witness ==
    \E r \in RunIds :
        /\ Returned(r)
        /\ Len(runs[r].results.details) = 2
        /\ runs[r].results.details[1].error = "store"
        /\ runs[r].results.details[2].success
        /\ users[runs[r].list[1]].last_greeting_sent = NULL

----------------------------------------------------------------------------

\* the writes of last_greeting_sent run r made
MarksBy(r) == {w \in writes : w.run = r /\ w.store = "users"}

\* C26 as stated: a run writes last_greeting_sent of a recipient at most
\* once, only when the delivery channel delivered its greeting to that
\* recipient in that run, and never more often than it counts sent outcomes
C26_WritesOnlyForDelivered ==
    \A r \in RunIds :
        /\ \A u \in UserIds :
              /\ Cardinality(MarksOf(r, u)) <= 1
              /\ MarksOf(r, u) # {} => \E s \in SendsOf(r, u) : s.res = "id"
        /\ Cardinality(MarksBy(r)) <= runs[r].results.sent

----------------------------------------------------------------------------

\* C27 as stated: last_greeting_sent of a user changes only in the step in
\* which a run records a sent outcome for that user
C27_OnlyDispatcherWrites ==
    [][\A u \in UserIds :
          users'[u].last_greeting_sent # users[u].last_greeting_sent =>
              \E r \in RunIds :
                  /\ runs[r].pc = "mark"
                  /\ CurrentUser(runs[r]) = u
                  /\ runs'[r].results.sent = runs[r].results.sent + 1]_vars

----------------------------------------------------------------------------

\* a task is registered in this step
Registers == Len(sched'.tasks) > Len(sched.tasks)

\* C28: the step that registers a task (start, reschedule) invokes no
\* handler, whatever occurrences have passed; a handler is invoked by the
\* schedule only when the clock reaches an occurrence of a task that was
\* registered and live before that step, and at the same time only by
\* POST /api/schedule/run
C28_NoBackfill ==
    [][/\ Registers =>
            /\ JobRunsStarted = {}
            /\ fired' = fired
            /\ now' = now
       /\ JobRunsStarted # {} =>
            IF now' = now
            THEN reply'.name = "morning_greeting" /\ sched' = sched
            ELSE /\ now' = now + 1
                 /\ Cardinality(JobRunsStarted)
                       = Cardinality(Due(sched, "morning_greeting", now'))]_vars

\* the scheduler was started when the occurrence of the day had come: its
\* morning_greeting task matches the present time and no handler has run
C28_Witness ==
    /\ starter = "done"
    /\ now = StartTime + 1
    /\ Due(sched, "morning_greeting", now) # {}
    /\ \A r \in RunIds : runs[r].pc = "idle"
    /\ \A name \in OtherJobs : fired[name] = 0

----------------------------------------------------------------------------

\* the user who sends the commands /stop and /start
Subscriber == UserOrder[2]

\* C29 as stated: no run, a run in flight included, calls the delivery
\* channel for the subscriber while the subscriber is unsubscribed, and a
\* query made while the subscriber is subscribed and not greeted on that day
\* selects the subscriber
C29_StoppedNotGreeted ==
    [][/\ \A s \in sends' \ sends :
            (s.run \in RunIds /\ s.user = Subscriber) =>
                users[Subscriber].is_active
       /\ \A r \in RunIds :
            (/\ runs[r].pc = "start"
             /\ runs'[r].pc = "send"
             /\ IsEligible(users, Subscriber, now)) =>
                Subscriber \in Elems(runs'[r].list)]_vars

----------------------------------------------------------------------------

\* the expression start() builds: from the stored row when it is active, from
\* the configuration otherwise
StartExpression ==
    IF settings.is_active
    THEN [slot |-> settings.slot, days |-> settings.days_of_week]
    ELSE [slot |-> DefaultSlot, days |-> WorkDays]

\* C30: once start() has completed, and as long as the scheduler is running
\* and no start() is at its await, exactly one morning_greeting task is live,
\* it is the registered one and it has the expression of the stored row when
\* the row is active and of the configuration otherwise; a second start()
\* called while the scheduler is running returns at once and leaves the
\* scheduler as it is
C30_StartRegistersOnce ==
    /\ []((starter \in {"started", "done"} /\ sched.isRunning /\ again # "await") =>
            /\ Cardinality(LiveTasks(sched, "morning_greeting")) = 1
            /\ Has(sched, "morning_greeting")
            /\ LET task == sched.tasks[sched.jobs["morning_greeting"]]
               IN /\ task.live
                  /\ task.slot = StartExpression.slot
                  /\ task.days = StartExpression.days)
    /\ [][(again = "idle" /\ again' # "idle" /\ sched.isRunning) =>
            /\ again' = "skipped"
            /\ sched' = sched]_vars

\* start() found the stored row of slot 1 inactive and registered the task of
\* the configuration; a second start() has returned at once
C30_Witness ==
    /\ starter = "done"
    /\ again = "skipped"
    /\ sched.isRunning
    /\ ~settings.is_active
    /\ settings.slot = 1
    /\ Cardinality(LiveTasks(sched, "morning_greeting")) = 1
    /\ sched.tasks[sched.jobs["morning_greeting"]].slot = DefaultSlot

----------------------------------------------------------------------------

\* C31 as stated: every pair getActiveJobs returns names a job of the map
\* whose task is live, so that it still fires
C31_RegistryHoldsLiveJobs ==
    \A job \in getActiveJobs(sched) :
        /\ job.running
        /\ sched.tasks[sched.jobs[job.name]].live

----------------------------------------------------------------------------

\* no PUT /api/schedule is between its UPDATE and its answer, and one at
\* least has answered
PutsFinished ==
    /\ \A p \in PutIds : puts[p].pc \in {"idle", "done", "failed"}
    /\ \E p \in PutIds : puts[p].pc = "done"

\* C32 as stated: when every reschedule request has finished, a
\* morning_greeting task is live and every live one has the hour and the
\* days of week of the stored settings
C32_TriggerMatchesSettings ==
    PutsFinished =>
        /\ LiveTasks(sched, "morning_greeting") # {}
        /\ \A n \in LiveTasks(sched, "morning_greeting") :
              /\ sched.tasks[n].slot = settings.slot
              /\ sched.tasks[n].days = settings.days_of_week

----------------------------------------------------------------------------

\* GET /api/status: scheduler.running and scheduler.jobs of the answer
getStatus(s) == [running |-> s.isRunning, jobs |-> getActiveJobs(s)]

\* no call of start() and no PUT /api/schedule is between its first step and
\* its end
NoCallInProgress ==
    /\ starter \in {"idle", "done"}
    /\ again \in {"idle", "skipped", "done"}
    /\ \A p \in PutIds : puts[p].pc \in {"idle", "done", "failed"}

\* C33 as stated: whenever the status says the scheduler is running and no
\* call is in progress, a live morning_greeting task is registered, also
\* after a reschedule that failed
C33_RunningHasTrigger ==
    (getStatus(sched).running /\ NoCallInProgress) =>
        /\ Has(sched, "morning_greeting")
        /\ sched.tasks[sched.jobs["morning_greeting"]].live

----------------------------------------------------------------------------

\* the expressions scheduleJob is called with: the ones of the bodies of
\* PUT /api/schedule, accepted by cron or not
Expressions ==
    {[slot |-> body.slot, days |-> body.days_of_week] : body \in AllBodies}

\* scheduler t has, under every name outside names, the job object
\* scheduler s has, in the state it has in s
SameOthers(s, t, names) ==
    \A m \in JobNames \ names :
        /\ t.jobs[m] = s.jobs[m]
        /\ s.jobs[m] # 0 => t.tasks[s.jobs[m]] = s.tasks[s.jobs[m]]

\* C34: in every state of the scheduler, scheduleJob(name, ...) with any
\* expression and stopJob(name) leave the entry and the task of every other
\* name as they are; and the steps of the program that call them for
\* morning_greeting (start, PUT /api/schedule) and for the two other jobs
\* (startServer) change nothing of the names they are not called for
C34_FrameOfName ==
    /\ [](\A name \in JobNames :
            /\ SameOthers(sched, stopJob(sched, name), {name})
            /\ \A expr \in Expressions :
                  SameOthers(sched, scheduleJob(sched, name, expr), {name}))
    /\ [][(sched' # sched /\ signals' = signals) =>
            IF starter = "started"
            THEN SameOthers(sched, sched', OtherJobs)
            ELSE SameOthers(sched, sched', {"morning_greeting"})]_vars

\* the three jobs were registered and morning_greeting was replaced by a
\* reschedule: user_sync and log_cleanup are the tasks startServer
\* registered, live
C34_Witness ==
    /\ \E p \in PutIds : puts[p].pc = "done"
    /\ sched.jobs["morning_greeting"] >= 4
    /\ sched.jobs["user_sync"] = 2 /\ sched.tasks[2].live
    /\ sched.jobs["log_cleanup"] = 3 /\ sched.tasks[3].live

----------------------------------------------------------------------------
(* User synchronisation *)

\* a step of saveUser
SaveStep == saves' # saves

\* C35: a step of saveUser (called by syncUsers or importUsers) leaves
\* is_active and last_greeting_sent of every user that has a row as they
\* are, so that the user is eligible after the step exactly when it was
\* before; a row it inserts is active with last_greeting_sent null
C35_SyncKeepsFlags ==
    [][SaveStep =>
        \A u \in UserIds :
            IF users[u].exists
            THEN /\ users'[u] = users[u]
                 /\ IsEligible(users', u, now') <=> IsEligible(users, u, now)
            ELSE users'[u] \in {NoUser, NewUser}]_vars

\* a sync has passed over an unsubscribed user and over a user greeted
\* today, and a sync has inserted a row
C35_Witness ==
    /\ \E c \in SaveIds :
          /\ saves[c].pc = "done" /\ saves[c].existing
          /\ ~users[saves[c].user].is_active
    /\ \E c \in SaveIds :
          /\ saves[c].pc = "done" /\ saves[c].existing
          /\ users[saves[c].user].last_greeting_sent = now
    /\ \E c \in SaveIds :
          /\ saves[c].pc = "done" /\ ~saves[c].existing
          /\ users[saves[c].user] = NewUser

----------------------------------------------------------------------------
(* History rows of a run *)

\* the rows run r added to message_history, all of them and by status
HistoryOf(r) == {w \in writes : w.run = r /\ w.store = "message_history"}
HistoryWith(r, status) == {w \in HistoryOf(r) : w.status = status}

\* C36 as stated: after a run has returned, the number of rows it added to
\* message_history is its total, the number of its 'sent' rows is its sent
\* count and the number of its 'error' rows is its failed count
C36_OneRowPerAttempt ==
    \A r \in RunIds :
        runs[r].pc = "returned" =>
            /\ Cardinality(HistoryOf(r)) = runs[r].results.total
            /\ Cardinality(HistoryWith(r, "sent")) = runs[r].results.sent
            /\ Cardinality(HistoryWith(r, "error")) = runs[r].results.errors

----------------------------------------------------------------------------
(* last_run of the schedule *)

\* run r is handed back to its caller in this step
Finishes(r) == runs[r].pc \in {"returned", "threw"} /\ runs'[r].pc = "handled"

\* C37: last_run changes only in the step in which a run started by the
\* trigger is handed back to the handler after it returned; the step that
\* hands back a run that threw, and every step of a run that has not
\* finished, leave last_run as it is
C37_LastRunAfterReturn ==
    [][/\ settings'.last_run # settings.last_run =>
            \E r \in RunIds :
                /\ Finishes(r)
                /\ runs[r].origin = "job" /\ runs[r].pc = "returned"
                /\ settings'.last_run = now
       /\ \A r \in RunIds :
            (runs[r].pc = "threw" /\ Finishes(r)) =>
                settings'.last_run = settings.last_run]_vars

\* a run fired by the trigger has returned and last_run holds the time at
\* which the handler took it back; the run had sent a message
C37_Witness ==
    /\ settings.last_run # NULL
    /\ \E r \in RunIds :
          /\ runs[r].origin = "job" /\ runs[r].pc = "handled"
          /\ runs[r].results.sent >= 1

----------------------------------------------------------------------------
(* A run without a bot id *)

\* C38: while the bot has no id, a run that was started has not passed its
\* check of bot.botId: it holds no list of recipients and no result, it ends
\* by throwing, and no message was sent and no row of users or
\* message_history was written
C38_NoBotIdNoEffect ==
    ~botId =>
        /\ \A r \in RunIds :
              /\ runs[r].pc \in {"idle", "start", "threw", "handled"}
              /\ runs[r].list = <<>>
              /\ runs[r].results = EmptyResults
        /\ sends = {}
        /\ writes = {}

\* without a bot id, a run fired by the trigger and a run started by the
\* route have thrown, with users that were eligible
C38_Witness ==
    /\ ~botId
    /\ getUsersForMorningGreeting(users, now) # <<>>
    /\ \E r1, r2 \in RunIds :
          /\ runs[r1].origin = "job" /\ runs[r1].pc \in {"threw", "handled"}
          /\ runs[r2].origin = "api" /\ runs[r2].pc \in {"threw", "handled"}

----------------------------------------------------------------------------
(* Broadcast *)

\* C39: the list of a broadcast holds every user that is active and matches
\* the filter when the query runs, each once; a broadcast that has passed
\* its query never throws, whatever its sends do; when it has returned, the
\* sends it attempted are the users of its list, each once and in order, and
\* sent + errors is total, the length of the list
C39_BroadcastAttemptsAll ==
    /\ [](cast.pc = "returned" =>
            /\ cast.attempts = cast.list
            /\ cast.total = Len(cast.list)
            /\ cast.sent + cast.errors = cast.total)
    /\ [](cast.pc = "threw" => cast.attempts = <<>>)
    /\ [][(cast.pc = "idle" /\ cast'.pc \in {"send", "returned"}) =>
            /\ Elems(cast'.list) =
                  {u \in cast'.filter : users[u].exists /\ users[u].is_active}
            /\ Cardinality(Elems(cast'.list)) = Len(cast'.list)]_vars

\* a broadcast over three users has returned after a send that threw was
\* followed by a send that was delivered
C39_Witness ==
    /\ cast.pc = "returned"
    /\ cast.total = Len(UserOrder)
    /\ cast.errors >= 1
    /\ cast.sent >= 1
    /\ \E w \in writes :
          /\ w.user = cast.list[Len(cast.list)] /\ w.status = "sent"

====
